---- MODULE Spec2Model ----
(***************************************************************************)
(* Daily queue manager and queue-entry endpoints of waitlessq-ai.          *)
(*                                                                         *)
(* The store is the relational database behind the SQLAlchemy session:     *)
(* the queues table, the appointments table and the queue_entries table.   *)
(* Dates are day numbers; an absent id is 0 and an absent string is "",    *)
(* the two values Python's "not x" treats like None.  The columns          *)
(* queues.service_name, queues.queue_date and appointments.queue_id are    *)
(* the ones migrate_daily_queues.py adds; it creates no unique index.      *)
(***************************************************************************)
EXTENDS Integers, Sequences, FiniteSets, TLC

\* ---------------------------------------------------------------- bounds
MaxCalls == 3
NumCallers == 2
NumEntryQueues == 2

\* ------------------------------------------------------------- constants
DefaultMaxSize == 100
DefaultWaitTime == 30

\* the rows of the providers table, and the days queues and appointments fall on
Providers == {1, 2}
Dates == {1, 2}
\* cutoff dates: each day, and the day after the last
Cutoffs == {1, 2, 3}
Services == {"Consult", "Haircut"}
NoQueue == 0
NoService == ""
NoDate == 0
Callers == 1..NumCallers
EntryQueues == 1..NumEntryQueues

VARIABLES
    queues,        \* queues table: id -> row
    nextQueueId,   \* next primary key of the queues table
    appointments,  \* appointments table: id -> row
    calls,         \* number of calls made so far
    lastOp,        \* the last completed call: its name, arguments and result
    pc,            \* per concurrent caller: the statement it is about to run
    frame,         \* per concurrent caller: its arguments and locals
    entries,       \* queue_entries table: id -> row
    nextEntryId,   \* next primary key of the queue_entries table
    joinLog,       \* positions returned by add_queue_entry, in call order
    availability,  \* availability table: id -> rule
    nextAvailabilityId,     \* next primary key of the availability table
    availabilityExceptions, \* availability_exceptions table: id -> row
    clients,       \* clients table: id -> row
    inviteLog,     \* tokens issued and registrations completed, in call order
    nextToken,     \* the next value the token generator returns
    now,           \* the clock the invitation expiry is compared with
    rateLimit      \* the rate_limit:* keys of the Redis store: key -> entry

dbVars == <<queues, nextQueueId, appointments>>
raceVars == <<pc, frame>>
entryVars == <<entries, nextEntryId, joinLog>>
availVars == <<availability, nextAvailabilityId, availabilityExceptions>>
inviteVars == <<clients, inviteLog, nextToken, now>>
otherVars == <<availVars, inviteVars, rateLimit>>
vars == <<queues, nextQueueId, appointments, calls, lastOp, pc, frame,
          entries, nextEntryId, joinLog, availability, nextAvailabilityId,
          availabilityExceptions, clients, inviteLog, nextToken, now, rateLimit>>

\* ------------------------------------------------------------- helpers
EmptyFn == [x \in {} |-> 0]

\* all functions f on DOMAIN C with f[k] \in C[k]
RECURSIVE Product(_)
Product(C) ==
    IF DOMAIN C = {} THEN {EmptyFn}
    ELSE LET k == CHOOSE k \in DOMAIN C : TRUE
         IN  {(k :> v) @@ f : v \in C[k],
                              f \in Product([j \in DOMAIN C \ {k} |-> C[j]])}

RECURSIVE Perms(_)
Perms(S) ==
    IF S = {} THEN {<<>>}
    ELSE UNION {{<<x>> \o t : t \in Perms(S \ {x})} : x \in S}

\* is_active of each row of the providers table: provider 2 is inactive
ProviderIsActive == <<TRUE, FALSE>>

\* provider of each appointment row; update_appointment cannot change it
ApptProvider == <<1, 1, 2>>
Appointments == DOMAIN ApptProvider

\* f"{service_name} - {queue_date.strftime('%B %d, %Y')}"
QueueName(s, d) == <<s, " - ", d>>

NewQueue(p, s, d) ==
    [provider_id |-> p, name |-> QueueName(s, d), service_name |-> s,
     queue_date |-> d, status |-> "active", max_size |-> DefaultMaxSize,
     estimated_wait_time |-> DefaultWaitTime]

\* rows the filter of get_or_create_daily_queue selects
Matching(qs, p, s, d) ==
    {i \in DOMAIN qs : /\ qs[i].provider_id = p
                       /\ qs[i].service_name = s
                       /\ qs[i].queue_date = d}

\* .first() without ORDER BY: any selected row, or None
FirstOf(M) == IF M = {} THEN {NoQueue} ELSE M

InsertRow(tbl, id, row) ==
    [i \in DOMAIN tbl \cup {id} |-> IF i = id THEN row ELSE tbl[i]]

\* ------------------------------------------------ QueueManager (pure part)
\* pick is the row .first() returned (NoQueue for None); fault says whether
\* the store rejects the INSERT at commit.
\* the row found gets the creation defaults for its size and wait time again
GetOrCreateReapplyDefaults(st, p, s, d, pick, fault) ==
    IF pick # NoQueue
    THEN [queues |-> [st.queues EXCEPT ![pick].max_size = DefaultMaxSize,
                                       ![pick].estimated_wait_time = DefaultWaitTime],
          nextQueueId |-> st.nextQueueId, ret |-> pick, raised |-> FALSE]
    ELSE IF fault
    THEN [queues |-> st.queues, nextQueueId |-> st.nextQueueId,
          ret |-> NoQueue, raised |-> TRUE]
    ELSE [queues |-> InsertRow(st.queues, st.nextQueueId, NewQueue(p, s, d)),
          nextQueueId |-> st.nextQueueId + 1,
          ret |-> st.nextQueueId, raised |-> FALSE]

\* an upsert that re-applies the creation defaults to the row it found
GetOrCreateBuggyReset(st, p, s, d, pick, fault) ==
    IF pick # NoQueue
    THEN [queues |-> [st.queues EXCEPT ![pick].status = "active"],
          nextQueueId |-> st.nextQueueId, ret |-> pick, raised |-> FALSE]
    ELSE IF fault
    THEN [queues |-> st.queues, nextQueueId |-> st.nextQueueId,
          ret |-> NoQueue, raised |-> TRUE]
    ELSE [queues |-> InsertRow(st.queues, st.nextQueueId, NewQueue(p, s, d)),
          nextQueueId |-> st.nextQueueId + 1,
          ret |-> st.nextQueueId, raised |-> FALSE]

\* the lookup is skipped: a row is inserted on every call
GetOrCreateAlwaysInsert(st, p, s, d, pick, fault) ==
    IF fault
    THEN [queues |-> st.queues, nextQueueId |-> st.nextQueueId,
          ret |-> NoQueue, raised |-> TRUE]
    ELSE [queues |-> InsertRow(st.queues, st.nextQueueId, NewQueue(p, s, d)),
          nextQueueId |-> st.nextQueueId + 1,
          ret |-> st.nextQueueId, raised |-> FALSE]

GetOrCreate(st, p, s, d, pick, fault) ==
    IF pick # NoQueue
    THEN [queues |-> st.queues, nextQueueId |-> st.nextQueueId,
          ret |-> pick, raised |-> FALSE]
    ELSE IF fault
    THEN [queues |-> st.queues, nextQueueId |-> st.nextQueueId,
          ret |-> NoQueue, raised |-> TRUE]
    ELSE [queues |-> InsertRow(st.queues, st.nextQueueId, NewQueue(p, s, d)),
          nextQueueId |-> st.nextQueueId + 1,
          ret |-> st.nextQueueId, raised |-> FALSE]

\* the appointments create_daily_queues_for_provider loads
Eligible(appts, p, d) ==
    {a \in DOMAIN appts : /\ appts[a].provider_id = p
                          /\ appts[a].scheduled_at = d
                          /\ appts[a].status \in {"scheduled", "confirmed"}}

\* the comprehension without its "if apt.service_name"
ServiceNamesUnfiltered(appts, loaded) ==
    {appts[a].service_name : a \in loaded}

\* set(apt.service_name for apt in appointments if apt.service_name)
ServiceNames(appts, loaded) ==
    {appts[a].service_name : a \in loaded} \ {NoService}

\* commit: write the session's pending queue_id values to the table
Flush(appts, mem) ==
    [a \in DOMAIN appts |->
        IF a \in DOMAIN mem THEN [appts[a] EXCEPT !.queue_id = mem[a]]
        ELSE appts[a]]

\* the inner loop links every loaded appointment, whatever its service
CdqServiceAnyService(st, p, d, s, pick, fault) ==
    LET g == GetOrCreate(st, p, s, d, pick, fault)
        committed == IF pick = NoQueue THEN Flush(st.appts, st.mem) ELSE st.appts
    IN  IF g.raised
        THEN [st EXCEPT !.raised = TRUE]
        ELSE [queues |-> g.queues,
              nextQueueId |-> g.nextQueueId,
              appts |-> committed,
              mem |-> [a \in DOMAIN st.mem |->
                         IF st.mem[a] = NoQueue THEN g.ret ELSE st.mem[a]],
              ret |-> Append(st.ret, g.ret),
              raised |-> FALSE]

\* one iteration of the loop over service_names
CdqService(st, p, d, s, pick, fault) ==
    LET g == GetOrCreate(st, p, s, d, pick, fault)
        committed == IF pick = NoQueue THEN Flush(st.appts, st.mem) ELSE st.appts
    IN  IF g.raised
        THEN [st EXCEPT !.raised = TRUE]
        ELSE [queues |-> g.queues,
              nextQueueId |-> g.nextQueueId,
              appts |-> committed,
              mem |-> [a \in DOMAIN st.mem |->
                         IF st.appts[a].service_name = s /\ st.mem[a] = NoQueue
                         THEN g.ret ELSE st.mem[a]],
              ret |-> Append(st.ret, g.ret),
              raised |-> FALSE]

RECURSIVE CdqLoop(_, _, _, _, _, _)
CdqLoop(st, p, d, order, picks, fault) ==
    IF order = <<>> \/ st.raised THEN st
    ELSE CdqLoop(CdqService(st, p, d, Head(order), picks[<<p, Head(order)>>],
                            fault = <<p, Head(order)>>),
                 p, d, Tail(order), picks, fault)

\* create_daily_queues_for_provider on store st = [queues, nextQueueId, appts];
\* order is the iteration order of the service_names set.
CreateForProvider(st, p, d, order, picks, fault) ==
    LET loaded == Eligible(st.appts, p, d)
        start == [queues |-> st.queues, nextQueueId |-> st.nextQueueId,
                  appts |-> st.appts,
                  mem |-> [a \in loaded |-> st.appts[a].queue_id],
                  ret |-> <<>>, raised |-> FALSE]
        r == CdqLoop(start, p, d, order, picks, fault)
    IN  [queues |-> r.queues, nextQueueId |-> r.nextQueueId,
         appts |-> IF r.raised THEN r.appts ELSE Flush(r.appts, r.mem),
         ret |-> r.ret, raised |-> r.raised]

ServiceOrders(appts, p, d) == Perms(ServiceNames(appts, Eligible(appts, p, d)))

\* what .first() may return for every key of date d
Picks(qs, d) ==
    Product([k \in Providers \X (Services \cup {NoService}) |->
                FirstOf(Matching(qs, k[1], k[2], d))])

\* create_daily_queues_for_all_providers: the loop over providers, one
\* session, no exception handler; failed is the provider being processed
\* when the exception left the loop.
RECURSIVE CdqAllLoop(_, _, _, _, _, _)
CdqAllLoop(st, d, porder, sorders, picks, fault) ==
    IF porder = <<>> \/ st.raised THEN st
    ELSE LET p == Head(porder)
             r == CreateForProvider(st, p, d, sorders[p], picks, fault)
         IN  CdqAllLoop([queues |-> r.queues, nextQueueId |-> r.nextQueueId,
                         appts |-> r.appts, ret |-> st.ret \o r.ret,
                         raised |-> r.raised,
                         failed |-> IF r.raised THEN p ELSE st.failed],
                        d, Tail(porder), sorders, picks, fault)

CreateForAllProviders(st, d, porder, sorders, picks, fault) ==
    CdqAllLoop([queues |-> st.queues, nextQueueId |-> st.nextQueueId,
                appts |-> st.appts, ret |-> <<>>, raised |-> FALSE,
                failed |-> 0],
               d, porder, sorders, picks, fault)

\* close_past_queues: the rows it selects and the table it leaves
PastQueues(qs, cutoff) ==
    {i \in DOMAIN qs : qs[i].queue_date < cutoff /\ qs[i].status = "active"}

ClosePastNoWrite(qs, cutoff) == qs

ClosePastInclusive(qs, cutoff) ==
    [i \in DOMAIN qs |->
        IF qs[i].queue_date <= cutoff /\ qs[i].status = "active"
        THEN [qs[i] EXCEPT !.status = "closed"] ELSE qs[i]]

ClosePast(qs, cutoff) ==
    [i \in DOMAIN qs |->
        IF i \in PastQueues(qs, cutoff)
        THEN [qs[i] EXCEPT !.status = "closed"] ELSE qs[i]]

\* record of a completed call
OpRec(op, args, ret, raised, failed) ==
    [op |-> op, args |-> args, ret |-> ret, raised |-> raised, failed |-> failed]

\* ------------------------------------------------------------------ Init
\* rows that predate the queue_id column: the migration leaves it NULL
InitAppointments ==
    [a \in Appointments |->
        [provider_id |-> ApptProvider[a],
         service_name |-> IF ApptProvider[a] = 1 THEN "Consult" ELSE "Haircut",
         scheduled_at |-> 1, status |-> "scheduled", queue_id |-> NoQueue]]

\* two active clients with an email address, neither invited yet
Clients == {1, 2}
NoToken == 0
NoPassword == ""

InitClients ==
    [c \in Clients |->
        [has_account |-> FALSE, is_active |-> TRUE, hashed_password |-> NoPassword,
         invitation_token |-> NoToken, invitation_expires_at |-> NoDate]]

Init ==
    /\ queues = EmptyFn
    /\ nextQueueId = 1
    /\ appointments = InitAppointments
    /\ calls = 0
    /\ lastOp = OpRec("none", <<>>, NoQueue, FALSE, 0)
    /\ pc = [c \in Callers |-> "idle"]
    /\ frame = [c \in Callers |-> <<>>]
    /\ entries = EmptyFn
    /\ nextEntryId = 1
    /\ joinLog = <<>>
    /\ availability = EmptyFn
    /\ nextAvailabilityId = 1
    /\ availabilityExceptions = EmptyFn
    /\ clients = InitClients
    /\ inviteLog = <<>>
    /\ nextToken = 1
    /\ now = 0
    /\ rateLimit = EmptyFn

\* --------------------------------------------- QueueManager (sequential)
\* every call counts against the bound on the length of a run
Called == calls < MaxCalls /\ calls' = calls + 1

get_or_create_daily_queue(p, s, d) ==
    \E pick \in FirstOf(Matching(queues, p, s, d)), fault \in BOOLEAN :
        LET g == GetOrCreate([queues |-> queues, nextQueueId |-> nextQueueId],
                             p, s, d, pick, fault)
        IN  /\ Called
            /\ queues' = g.queues
            /\ nextQueueId' = g.nextQueueId
            /\ lastOp' = OpRec("get_or_create_daily_queue", <<>>,
                               g.ret, g.raised, 0)
            /\ UNCHANGED <<appointments, raceVars, entryVars, otherVars>>

\* the guard on scheduled_at and service_name is missing
AssignWithoutGuard(a) ==
    LET apt == appointments[a] IN
    \E pick \in FirstOf(Matching(queues, apt.provider_id,
                                 apt.service_name, apt.scheduled_at)),
       fault \in BOOLEAN :
        LET g == GetOrCreate([queues |-> queues, nextQueueId |-> nextQueueId],
                             apt.provider_id, apt.service_name,
                             apt.scheduled_at, pick, fault)
        IN  /\ Called
            /\ queues' = g.queues
            /\ nextQueueId' = g.nextQueueId
            /\ appointments' = IF g.raised THEN appointments
                               ELSE [appointments EXCEPT ![a].queue_id = g.ret]
            /\ lastOp' = OpRec("assign_appointment_to_queue", <<a>>,
                               g.ret, g.raised, 0)
            /\ UNCHANGED <<raceVars, entryVars, otherVars>>

\* the queue is found or created but appointment.queue_id is not written
AssignWithoutLink(a) ==
    LET apt == appointments[a] IN
    IF apt.scheduled_at = NoDate \/ apt.service_name = NoService
    THEN /\ Called
         /\ lastOp' = OpRec("assign_appointment_to_queue", <<a>>,
                             NoQueue, FALSE, 0)
         /\ UNCHANGED <<dbVars, raceVars, entryVars, otherVars>>
    ELSE \E pick \in FirstOf(Matching(queues, apt.provider_id,
                                      apt.service_name, apt.scheduled_at)),
            fault \in BOOLEAN :
        LET g == GetOrCreate([queues |-> queues, nextQueueId |-> nextQueueId],
                             apt.provider_id, apt.service_name,
                             apt.scheduled_at, pick, fault)
        IN  /\ Called
            /\ queues' = g.queues
            /\ nextQueueId' = g.nextQueueId
            /\ appointments' = appointments
            /\ lastOp' = OpRec("assign_appointment_to_queue", <<a>>,
                               g.ret, g.raised, 0)
            /\ UNCHANGED <<raceVars, entryVars, otherVars>>

assign_appointment_to_queue(a) ==
    LET apt == appointments[a] IN
    IF apt.scheduled_at = NoDate \/ apt.service_name = NoService
    THEN /\ Called
         /\ lastOp' = OpRec("assign_appointment_to_queue", <<a>>,
                             NoQueue, FALSE, 0)
         /\ UNCHANGED <<dbVars, raceVars, entryVars, otherVars>>
    ELSE \E pick \in FirstOf(Matching(queues, apt.provider_id,
                                      apt.service_name, apt.scheduled_at)),
            fault \in BOOLEAN :
        LET g == GetOrCreate([queues |-> queues, nextQueueId |-> nextQueueId],
                             apt.provider_id, apt.service_name,
                             apt.scheduled_at, pick, fault)
        IN  /\ Called
            /\ queues' = g.queues
            /\ nextQueueId' = g.nextQueueId
            /\ appointments' = IF g.raised THEN appointments
                               ELSE [appointments EXCEPT ![a].queue_id = g.ret]
            /\ lastOp' = OpRec("assign_appointment_to_queue", <<a>>,
                               g.ret, g.raised, 0)
            /\ UNCHANGED <<raceVars, entryVars, otherVars>>

Store == [queues |-> queues, nextQueueId |-> nextQueueId, appts |-> appointments]

FaultKeys == {<<0, NoService>>} \cup (Providers \X Services)

\* r is the outcome of the call, computed once per choice of inputs
create_daily_queues_for_provider(p, d) ==
    /\ Called
    /\ \E order \in ServiceOrders(appointments, p, d), picks \in Picks(queues, d),
          fault \in FaultKeys :
        \E r \in {CreateForProvider(Store, p, d, order, picks, fault)} :
            /\ queues' = r.queues
            /\ nextQueueId' = r.nextQueueId
            /\ appointments' = r.appts
            /\ lastOp' = OpRec("create_daily_queues_for_provider", <<p, d>>,
                               r.ret, r.raised, 0)
    /\ UNCHANGED <<raceVars, entryVars, otherVars>>

create_daily_queues_for_all_providers(d) ==
    /\ Called
    /\ \E porder \in Perms(Providers),
          sorders \in Product([p \in Providers |-> ServiceOrders(appointments, p, d)]),
          picks \in Picks(queues, d), fault \in FaultKeys :
        \E r \in {CreateForAllProviders(Store, d, porder, sorders, picks, fault)} :
            /\ queues' = r.queues
            /\ nextQueueId' = r.nextQueueId
            /\ appointments' = r.appts
            /\ lastOp' = OpRec("create_daily_queues_for_all_providers", <<d>>,
                               r.ret, r.raised, r.failed)
    /\ UNCHANGED <<raceVars, entryVars, otherVars>>

\* cutoff is the argument, or date.today() when it is omitted
close_past_queues(cutoff) ==
    /\ Called
    /\ queues' = ClosePast(queues, cutoff)
    /\ lastOp' = OpRec("close_past_queues", <<cutoff>>,
                       Cardinality(PastQueues(queues, cutoff)), FALSE, 0)
    /\ UNCHANGED <<nextQueueId, appointments, raceVars, entryVars, otherVars>>

\* ------------------------------------------------- API layer (sequential)
\* PUT /queues/{queue_id}: setattr of a field of QueueUpdate (manual pause,
\* resume, close; a new name, max_size or estimated_wait_time)
update_queue(q, field, value) ==
    /\ Called
    /\ q \in DOMAIN queues
    /\ queues' = [queues EXCEPT ![q][field] = value]
    /\ lastOp' = OpRec("update_queue", <<>>, NoQueue, FALSE, 0)
    /\ UNCHANGED <<nextQueueId, appointments, raceVars, entryVars, otherVars>>

\* PUT /appointments/{appointment_id}: service_name, scheduled_at or status
update_appointment(a, field, value) ==
    /\ Called
    /\ a \in DOMAIN appointments
    /\ appointments' = [appointments EXCEPT ![a][field] = value]
    /\ lastOp' = OpRec("update_appointment", <<>>, NoQueue, FALSE, 0)
    /\ UNCHANGED <<queues, nextQueueId, raceVars, entryVars, otherVars>>

EngineOps == {"get_or_create_daily_queue", "assign_appointment_to_queue",
              "create_daily_queues_for_provider",
              "create_daily_queues_for_all_providers", "close_past_queues"}

Next ==
    \/ \E p \in Providers, s \in Services, d \in Dates :
          get_or_create_daily_queue(p, s, d)
    \/ \E a \in Appointments : assign_appointment_to_queue(a)
    \/ \E p \in Providers, d \in Dates : create_daily_queues_for_provider(p, d)
    \/ \E d \in Dates : create_daily_queues_for_all_providers(d)
    \/ \E cutoff \in Cutoffs : close_past_queues(cutoff)
    \/ \E q \in DOMAIN queues, st \in {"active", "paused", "closed"} :
          update_queue(q, "status", st)
    \/ \E a \in Appointments :
          \/ \E s \in Services \cup {NoService} :
                update_appointment(a, "service_name", s)
          \/ \E d \in Dates : update_appointment(a, "scheduled_at", d)
          \/ \E st \in {"scheduled", "confirmed", "cancelled"} :
                update_appointment(a, "status", st)

Spec == Init /\ [][Next]_vars

\* the queue assigner: single assignments and per-provider batches, with the
\* edits of appointments and queues that can precede them
\* the two statuses the batch query selects, and one it does not
AppointmentStatuses == {"scheduled", "confirmed", "cancelled"}
QueueStatuses == {"active", "paused", "closed"}

NextAssigner ==
    \/ \E p \in Providers, s \in Services, d \in Dates :
          get_or_create_daily_queue(p, s, d)
    \/ \E a \in Appointments : assign_appointment_to_queue(a)
    \/ \E p \in Providers, d \in Dates : create_daily_queues_for_provider(p, d)
    \/ \E cutoff \in Cutoffs : close_past_queues(cutoff)
    \/ \E q \in DOMAIN queues, st \in QueueStatuses :
          update_queue(q, "status", st)
    \/ \E a \in Appointments, s \in Services \cup {NoService} :
          update_appointment(a, "service_name", s)
    \/ \E a \in Appointments, d \in Dates :
          update_appointment(a, "scheduled_at", d)
    \/ \E a \in Appointments, st \in AppointmentStatuses :
          update_appointment(a, "status", st)

SpecAssigner == Init /\ [][NextAssigner]_vars

\* the queue registry with every edit PUT /queues/{queue_id} can make to a
\* queue's settings between two lookups
EditedMaxSizes == {50}
EditedWaitTimes == {15}

NextRegistry ==
    \/ \E p \in Providers, s \in Services, d \in Dates :
          get_or_create_daily_queue(p, s, d)
    \/ \E q \in DOMAIN queues, st \in QueueStatuses :
          update_queue(q, "status", st)
    \/ \E q \in DOMAIN queues, n \in EditedMaxSizes :
          update_queue(q, "max_size", n)
    \/ \E q \in DOMAIN queues, w \in EditedWaitTimes :
          update_queue(q, "estimated_wait_time", w)
    \/ \E q \in DOMAIN queues : update_queue(q, "name", <<"Renamed">>)

SpecRegistry == Init /\ [][NextRegistry]_vars

\* ------------------------------------- QueueManager, concurrent callers
\* Each caller has its own session on the shared store; a step is one
\* statement it sends to the store (a SELECT, or an INSERT/UPDATE with its
\* commit).  The queues table carries plain indexes only, so the store
\* rejects no INSERT for a key that already has a row.
Begin(c) == pc[c] \in {"idle", "done"} /\ Called

\* get_or_create_daily_queue, lines 43-52: the lookup
goc_select(c, p, s, d) ==
    /\ Begin(c)
    /\ \E pick \in FirstOf(Matching(queues, p, s, d)) :
          /\ frame' = [frame EXCEPT ![c] =
                [op |-> "get_or_create_daily_queue", key |-> <<p, s, d>>,
                 a |-> 0, ret |-> pick]]
          /\ pc' = [pc EXCEPT ![c] = IF pick = NoQueue THEN "insert" ELSE "done"]
    /\ UNCHANGED <<dbVars, lastOp, entryVars, otherVars>>

\* assign_appointment_to_queue, lines 86-97: the guard and the lookup
assign_select(c, a) ==
    /\ Begin(c)
    /\ LET apt == appointments[a] IN
       IF apt.scheduled_at = NoDate \/ apt.service_name = NoService
       THEN /\ frame' = [frame EXCEPT ![c] =
                  [op |-> "assign_appointment_to_queue", key |-> <<>>,
                   a |-> a, ret |-> NoQueue]]
            /\ pc' = [pc EXCEPT ![c] = "done"]
       ELSE \E pick \in FirstOf(Matching(queues, apt.provider_id,
                                         apt.service_name, apt.scheduled_at)) :
            /\ frame' = [frame EXCEPT ![c] =
                  [op |-> "assign_appointment_to_queue",
                   key |-> <<apt.provider_id, apt.service_name, apt.scheduled_at>>,
                   a |-> a, ret |-> pick]]
            /\ pc' = [pc EXCEPT ![c] = IF pick = NoQueue THEN "insert" ELSE "link"]
    /\ UNCHANGED <<dbVars, lastOp, entryVars, otherVars>>

\* get_or_create_daily_queue, lines 58-74: add, commit, refresh
goc_insert(c) ==
    /\ pc[c] = "insert"
    /\ LET k == frame[c].key
           g == GetOrCreate([queues |-> queues, nextQueueId |-> nextQueueId],
                            k[1], k[2], k[3], NoQueue, FALSE)
       IN  /\ queues' = g.queues
           /\ nextQueueId' = g.nextQueueId
           /\ frame' = [frame EXCEPT ![c].ret = g.ret]
    /\ pc' = [pc EXCEPT ![c] =
                IF frame[c].op = "assign_appointment_to_queue" THEN "link"
                ELSE "done"]
    /\ UNCHANGED <<appointments, calls, lastOp, entryVars, otherVars>>

\* assign_appointment_to_queue, lines 100-101: set queue_id, commit
assign_link(c) ==
    /\ pc[c] = "link"
    /\ appointments' = [appointments EXCEPT ![frame[c].a].queue_id = frame[c].ret]
    /\ pc' = [pc EXCEPT ![c] = "done"]
    /\ UNCHANGED <<queues, nextQueueId, calls, lastOp, frame, entryVars, otherVars>>

NextQueueRace ==
    \/ \E c \in Callers, p \in Providers, s \in Services, d \in Dates :
          goc_select(c, p, s, d)
    \/ \E c \in Callers, a \in Appointments : assign_select(c, a)
    \/ \E c \in Callers : goc_insert(c)
    \/ \E c \in Callers : assign_link(c)

SpecQueueRace == Init /\ [][NextQueueRace]_vars

\* ------------------------------------------------ queue entries endpoints
EntriesOf(es, q) == {e \in DOMAIN es : es[e].queue_id = q}

\* the query sorts ascending: the first row is the lowest position
NextPositionAscending(es, q) ==
    IF EntriesOf(es, q) = {} THEN 1
    ELSE (CHOOSE m \in {es[e].position : e \in EntriesOf(es, q)} :
             \A e \in EntriesOf(es, q) : es[e].position >= m) + 1

\* order_by(position.desc()).first(), then 1 or last.position + 1
NextPosition(es, q) ==
    IF EntriesOf(es, q) = {} THEN 1
    ELSE (CHOOSE m \in {es[e].position : e \in EntriesOf(es, q)} :
             \A e \in EntriesOf(es, q) : es[e].position <= m) + 1

EntryStatuses == {"waiting", "called", "completed", "cancelled", "no_show"}

\* QueueEntry(**entry.dict(), position=position): queue_id is the body's
\* called_at and completed_at have no default: the row starts with both NULL
NewEntry(body_q, position) ==
    [queue_id |-> body_q, position |-> position, status |-> "waiting",
     called_at |-> NoDate, completed_at |-> NoDate]

LogJoin(path_q, body_q, position) ==
    Append(joinLog, [path |-> path_q, body |-> body_q, position |-> position])

\* POST /queues/{queue_id}/entries: no lookup of the queue precedes the
\* INSERT, and the default store (SQLite) does not enforce the foreign key
add_queue_entry(path_q, body_q) ==
    /\ Called
    /\ LET position == NextPosition(entries, path_q) IN
       /\ entries' = InsertRow(entries, nextEntryId, NewEntry(body_q, position))
       /\ nextEntryId' = nextEntryId + 1
       /\ joinLog' = LogJoin(path_q, body_q, position)
       /\ lastOp' = OpRec("add_queue_entry", <<path_q, body_q>>, position, FALSE, 0)
    /\ UNCHANGED <<dbVars, raceVars, otherVars>>

\* PUT /queues/{queue_id}/entries/{entry_id}: setattr of the fields the body
\* carries; QueueEntryUpdate has status but neither called_at nor completed_at
update_queue_entry(path_q, e, newStatus) ==
    /\ Called
    /\ IF e \in DOMAIN entries /\ entries[e].queue_id = path_q
       THEN /\ entries' = [entries EXCEPT ![e].status = newStatus]
            /\ lastOp' = OpRec("update_queue_entry", <<path_q, e>>, e, FALSE, 0)
       ELSE /\ entries' = entries
            /\ lastOp' = OpRec("update_queue_entry", <<path_q, e>>, 0, TRUE, 0)
    /\ UNCHANGED <<dbVars, raceVars, nextEntryId, joinLog, otherVars>>

\* DELETE /queues/{queue_id}/entries/{entry_id}
remove_queue_entry(path_q, e) ==
    /\ Called
    /\ IF e \in DOMAIN entries /\ entries[e].queue_id = path_q
       THEN /\ entries' = [i \in DOMAIN entries \ {e} |-> entries[i]]
            /\ lastOp' = OpRec("remove_queue_entry", <<path_q, e>>, e, FALSE, 0)
       ELSE /\ entries' = entries
            /\ lastOp' = OpRec("remove_queue_entry", <<path_q, e>>, 0, TRUE, 0)
    /\ UNCHANGED <<dbVars, raceVars, nextEntryId, joinLog, otherVars>>

EntryIds == 1..MaxCalls

NextEntries ==
    \/ \E p \in Providers, s \in Services, d \in Dates :
          get_or_create_daily_queue(p, s, d)
    \/ \E q \in EntryQueues, b \in EntryQueues : add_queue_entry(q, b)
    \/ \E q \in EntryQueues, e \in EntryIds, st \in EntryStatuses :
          update_queue_entry(q, e, st)
    \/ \E q \in EntryQueues, e \in EntryIds : remove_queue_entry(q, e)

SpecEntries == Init /\ [][NextEntries]_vars

\* add_queue_entry by concurrent callers: the SELECT of the last entry and
\* the INSERT are two statements, with no lock held between them.
join_read(c, path_q, body_q) ==
    /\ Begin(c)
    /\ frame' = [frame EXCEPT ![c] =
          [op |-> "add_queue_entry", path |-> path_q, body |-> body_q,
           position |-> NextPosition(entries, path_q)]]
    /\ pc' = [pc EXCEPT ![c] = "insert"]
    /\ UNCHANGED <<dbVars, lastOp, entryVars, otherVars>>

join_insert(c) ==
    /\ pc[c] = "insert"
    /\ entries' = InsertRow(entries, nextEntryId,
                            NewEntry(frame[c].body, frame[c].position))
    /\ nextEntryId' = nextEntryId + 1
    /\ joinLog' = LogJoin(frame[c].path, frame[c].body, frame[c].position)
    /\ pc' = [pc EXCEPT ![c] = "done"]
    /\ UNCHANGED <<dbVars, calls, lastOp, frame, otherVars>>

NextJoinRace ==
    \/ \E c \in Callers, q \in EntryQueues, b \in EntryQueues : join_read(c, q, b)
    \/ \E c \in Callers : join_insert(c)

SpecJoinRace == Init /\ [][NextJoinRace]_vars

\* --------------------------------------------------- DELETE /queues/{id}
\* Queue.entries has no delete cascade: the flush of db.delete(queue) first
\* writes NULL into queue_id of the queue's entries, which the NOT NULL
\* column refuses, so the request fails and leaves every row; a queue with
\* no entry is deleted. appointments.queue_id is a plain integer column that
\* no relationship or constraint ties to queues: the delete never touches it.
delete_queue(q) ==
    /\ Called
    /\ IF q \notin DOMAIN queues
       THEN /\ UNCHANGED queues
            /\ lastOp' = OpRec("delete_queue", <<q>>, NoQueue, TRUE, 0)
       ELSE IF EntriesOf(entries, q) # {}
       THEN /\ UNCHANGED queues
            /\ lastOp' = OpRec("delete_queue", <<q>>, q, TRUE, 0)
       ELSE /\ queues' = [i \in DOMAIN queues \ {q} |-> queues[i]]
            /\ lastOp' = OpRec("delete_queue", <<q>>, q, FALSE, 0)
    /\ UNCHANGED <<nextQueueId, appointments, raceVars, entryVars, otherVars>>

NextQueueLinks ==
    \/ \E p \in Providers, s \in Services, d \in Dates :
          get_or_create_daily_queue(p, s, d)
    \/ \E a \in Appointments : assign_appointment_to_queue(a)
    \/ \E q \in EntryQueues, b \in EntryQueues : add_queue_entry(q, b)
    \/ \E q \in EntryQueues : delete_queue(q)

SpecQueueLinks == Init /\ [][NextQueueLinks]_vars

\* ------------------------------------------------------ POST /appointments
\* provider ids a booking request may name; 3 is no row of the table
RequestProviders == Providers \cup {3}

\* Appointment(**appointment_dict): queue_id is not part of the body
NewAppointment(p, s, d) ==
    [provider_id |-> p, service_name |-> s, scheduled_at |-> d,
     status |-> "scheduled", queue_id |-> NoQueue]

\* POST /appointments: 404 for an unknown provider; else INSERT and commit
\* the appointment, then assign_appointment_to_queue on the stored row. An
\* error of the assignment is caught and answered with a 500; its rollback
\* comes after the commit of the INSERT. No endpoint of this specification
\* deletes an appointment, so the ids are 1, 2, ...
create_appointment(p, s, d) ==
    /\ Called
    /\ IF p \notin Providers
       THEN /\ lastOp' = OpRec("create_appointment", <<p, s, d>>, NoQueue, TRUE, 0)
            /\ UNCHANGED dbVars
       ELSE \E id \in {Cardinality(DOMAIN appointments) + 1} :
            \E stored \in {InsertRow(appointments, id, NewAppointment(p, s, d))} :
            IF s = NoService
            THEN /\ appointments' = stored
                 /\ lastOp' = OpRec("create_appointment", <<p, s, d>>, id, FALSE, 0)
                 /\ UNCHANGED <<queues, nextQueueId>>
            ELSE \E pick \in FirstOf(Matching(queues, p, s, d)), fault \in BOOLEAN :
                 \E g \in {GetOrCreate([queues |-> queues,
                                        nextQueueId |-> nextQueueId],
                                       p, s, d, pick, fault)} :
                    /\ queues' = g.queues
                    /\ nextQueueId' = g.nextQueueId
                    /\ appointments' =
                          IF g.raised THEN stored
                          ELSE [stored EXCEPT ![id].queue_id = g.ret]
                    /\ lastOp' = OpRec("create_appointment", <<p, s, d>>, id,
                                       g.raised, 0)
    /\ UNCHANGED <<raceVars, entryVars, otherVars>>

NextBooking ==
    \/ \E p \in RequestProviders, s \in Services \cup {NoService}, d \in Dates :
          create_appointment(p, s, d)
    \/ \E p \in Providers, s \in Services, d \in Dates :
          get_or_create_daily_queue(p, s, d)
    \/ \E a \in Appointments : assign_appointment_to_queue(a)

SpecBooking == Init /\ [][NextBooking]_vars

\* ------------------------------------------------- client invitations
\* days an invitation stays valid
InvitationExpireDays == 7
\* client ids the requests name; 3 is no row of the table
ClientIds == Clients \cup {3}
Passwords == {"pw1", "pw2"}
\* days that pass between two requests
Elapsed == {1, 8}

\* client_auth_service.hash_password
HashPassword(pw) == <<"bcrypt", pw>>

\* rows the filter of validate_invitation_token selects
TokenMatches(cl, t) ==
    {c \in DOMAIN cl : /\ cl[c].invitation_token = t
                       /\ ~cl[c].has_account
                       /\ cl[c].is_active}

\* validate_invitation_token: the client .first() returned unless its
\* invitation has expired, else None (0)
ValidateToken(cl, t, pick, today) ==
    IF pick = 0 THEN 0
    ELSE IF cl[pick].invitation_expires_at # NoDate
            /\ cl[pick].invitation_expires_at < today
    THEN 0
    ELSE pick

\* the registration leaves has_account and the token as they were
RegisteredWithoutAccount(row, hashed) ==
    [row EXCEPT !.hashed_password = hashed]

\* the client row complete_client_registration writes
Registered(row, hashed) ==
    [row EXCEPT !.has_account = TRUE, !.hashed_password = hashed,
                !.invitation_token = NoToken,
                !.invitation_expires_at = NoDate]

\* the checks of send_client_invitation and resend_invitation before a
\* token is generated; every client of the model has an email address
Invitable(cl, c) == c \in DOMAIN cl /\ ~cl[c].has_account

\* the client row send_client_invitation writes
Invited(row, token, today) ==
    [row EXCEPT !.invitation_token = token,
                !.invitation_expires_at = today + InvitationExpireDays]

\* send_client_invitation and resend_invitation, which repeats the checks
\* and calls it: a new token replaces the client's token and is committed
\* whether or not the email went out; an exception rolls the token back
SendInvitation(op, c, email_sent, fault) ==
    /\ Called
    /\ IF ~Invitable(clients, c)
       THEN /\ UNCHANGED <<clients, inviteLog, nextToken>>
            /\ lastOp' = OpRec(op, <<c>>, NoToken, TRUE, 0)
       ELSE /\ nextToken' = nextToken + 1
            /\ IF fault
               THEN /\ UNCHANGED <<clients, inviteLog>>
                    /\ lastOp' = OpRec(op, <<c>>, NoToken, TRUE, 0)
               ELSE /\ clients' = [clients EXCEPT
                                      ![c] = Invited(@, nextToken, now)]
                    /\ inviteLog' = Append(inviteLog,
                           [op |-> "issued", client |-> c, token |-> nextToken])
                    /\ lastOp' = OpRec(op, <<c>>, nextToken, ~email_sent, 0)
    /\ UNCHANGED <<dbVars, raceVars, entryVars, availVars, now, rateLimit>>

send_client_invitation(c, email_sent, fault) ==
    SendInvitation("send_client_invitation", c, email_sent, fault)

resend_invitation(c, email_sent, fault) ==
    SendInvitation("resend_invitation", c, email_sent, fault)

\* GET /clients/validate-token/{token}
validate_invitation_token(t) ==
    /\ Called
    /\ \E pick \in FirstOf(TokenMatches(clients, t)) :
          lastOp' = OpRec("validate_invitation_token", <<t>>,
                          ValidateToken(clients, t, pick, now), FALSE, 0)
    /\ UNCHANGED <<dbVars, raceVars, entryVars, otherVars>>

\* POST /clients/register: the token is validated, then the account is
\* written and committed; an exception rolls everything back
complete_client_registration(t, pw, fault) ==
    /\ Called
    /\ \E pick \in FirstOf(TokenMatches(clients, t)) :
       \E c \in {ValidateToken(clients, t, pick, now)} :
          IF c = 0 \/ fault
          THEN /\ UNCHANGED <<clients, inviteLog>>
               /\ lastOp' = OpRec("complete_client_registration", <<t, pw>>,
                                  0, TRUE, 0)
          ELSE /\ clients' = [clients EXCEPT
                                 ![c] = Registered(@, HashPassword(pw))]
               /\ inviteLog' = Append(inviteLog,
                      [op |-> "registered", client |-> c, token |-> t])
               /\ lastOp' = OpRec("complete_client_registration", <<t, pw>>,
                                  c, FALSE, 0)
    /\ UNCHANGED <<dbVars, raceVars, entryVars, availVars, nextToken, now,
                   rateLimit>>

\* PUT /clients/{id} with is_active, and DELETE /clients/{id}, which sets
\* is_active false
update_client(c, is_active) ==
    /\ Called
    /\ IF c \in DOMAIN clients
       THEN /\ clients' = [clients EXCEPT ![c].is_active = is_active]
            /\ lastOp' = OpRec("update_client", <<c>>, c, FALSE, 0)
       ELSE /\ UNCHANGED clients
            /\ lastOp' = OpRec("update_client", <<c>>, 0, TRUE, 0)
    /\ UNCHANGED <<dbVars, raceVars, entryVars, availVars, inviteLog,
                   nextToken, now, rateLimit>>

delete_client(c) ==
    /\ Called
    /\ IF c \in DOMAIN clients
       THEN /\ clients' = [clients EXCEPT ![c].is_active = FALSE]
            /\ lastOp' = OpRec("delete_client", <<c>>, c, FALSE, 0)
       ELSE /\ UNCHANGED clients
            /\ lastOp' = OpRec("delete_client", <<c>>, 0, TRUE, 0)
    /\ UNCHANGED <<dbVars, raceVars, entryVars, availVars, inviteLog,
                   nextToken, now, rateLimit>>

\* datetime.utcnow() moves on between two requests
DaysPass(n) ==
    /\ Called
    /\ now' = now + n
    /\ lastOp' = OpRec("none", <<>>, NoQueue, FALSE, 0)
    /\ UNCHANGED <<dbVars, raceVars, entryVars, availVars, clients, inviteLog,
                   nextToken, rateLimit>>

NextInvitations ==
    \/ \E c \in ClientIds, email_sent \in BOOLEAN, fault \in BOOLEAN :
          send_client_invitation(c, email_sent, fault)
    \/ \E c \in ClientIds, email_sent \in BOOLEAN, fault \in BOOLEAN :
          resend_invitation(c, email_sent, fault)
    \/ \E t \in 1..nextToken : validate_invitation_token(t)
    \/ \E t \in 1..nextToken, pw \in Passwords, fault \in BOOLEAN :
          complete_client_registration(t, pw, fault)
    \/ \E c \in ClientIds, v \in BOOLEAN : update_client(c, v)
    \/ \E c \in ClientIds : delete_client(c)
    \/ \E n \in Elapsed : DaysPass(n)

SpecInvitations == Init /\ [][NextInvitations]_vars

\* ---------------------------------------------------------- RateLimiter
\* settings.RATE_LIMIT_PER_MINUTE, the limit the middleware passes
RateLimitPerMinute == 100
\* client identifiers the middleware derives from requests
RateKeys == {"ip:a", "ip:b"}
\* redis.get of a missing key
NoValue == -1

\* is_allowed makes up to two round trips to the store, with nothing held
\* between them: the GET, then the SETEX or the INCR. First the GET and the
\* branch on its result; a count at the limit is refused at once.
rl_get(c, k) ==
    /\ Begin(c)
    /\ \E current \in {IF k \in DOMAIN rateLimit THEN rateLimit[k].count
                       ELSE NoValue} :
          /\ frame' = [frame EXCEPT ![c] = [op |-> "is_allowed", key |-> k,
                                            current |-> current]]
          /\ IF current = NoValue
             THEN pc' = [pc EXCEPT ![c] = "setex"] /\ UNCHANGED lastOp
             ELSE IF current >= RateLimitPerMinute
             THEN /\ pc' = [pc EXCEPT ![c] = "idle"]
                  /\ lastOp' = OpRec("is_allowed", <<k>>, FALSE, FALSE, 0)
             ELSE pc' = [pc EXCEPT ![c] = "incr"] /\ UNCHANGED lastOp
    /\ UNCHANGED <<dbVars, entryVars, otherVars>>

\* redis.setex(key, window, 1): the key is written with an expiry
rl_setex(c) ==
    /\ pc[c] = "setex"
    /\ rateLimit' = [k \in DOMAIN rateLimit \cup {frame[c].key} |->
                        IF k = frame[c].key
                        THEN [count |-> 1, expires |-> TRUE]
                        ELSE rateLimit[k]]
    /\ pc' = [pc EXCEPT ![c] = "idle"]
    /\ lastOp' = OpRec("is_allowed", <<frame[c].key>>, TRUE, FALSE, 0)
    /\ UNCHANGED <<dbVars, calls, frame, entryVars, availVars, inviteVars>>

\* redis.incr(key): a stored count goes up and keeps its expiry; a missing
\* key is created as 1 and the command gives it no expiry
rl_incr(c) ==
    /\ pc[c] = "incr"
    /\ rateLimit' = [k \in DOMAIN rateLimit \cup {frame[c].key} |->
                        IF k # frame[c].key THEN rateLimit[k]
                        ELSE IF k \in DOMAIN rateLimit
                        THEN [rateLimit[k] EXCEPT !.count = @ + 1]
                        ELSE [count |-> 1, expires |-> FALSE]]
    /\ pc' = [pc EXCEPT ![c] = "idle"]
    /\ lastOp' = OpRec("is_allowed", <<frame[c].key>>, TRUE, FALSE, 0)
    /\ UNCHANGED <<dbVars, calls, frame, entryVars, availVars, inviteVars>>

\* the window of a key with an expiry elapses and the store drops the key
rl_expire(k) ==
    /\ k \in DOMAIN rateLimit
    /\ rateLimit[k].expires
    /\ rateLimit' = [j \in DOMAIN rateLimit \ {k} |-> rateLimit[j]]
    /\ UNCHANGED <<dbVars, calls, lastOp, raceVars, entryVars, availVars,
                   inviteVars>>

NextRateLimiter ==
    \/ \E c \in Callers, k \in RateKeys : rl_get(c, k)
    \/ \E c \in Callers : rl_setex(c)
    \/ \E c \in Callers : rl_incr(c)
    \/ \E k \in RateKeys : rl_expire(k)

SpecRateLimiter == Init /\ [][NextRateLimiter]_vars

\* ------------------------------------------------ availability endpoints
\* A request carries a time as "HH:MM", here the pair <<HH, MM>>; the table
\* stores a time of day, here the minutes since midnight.
Weekdays == {"monday", "tuesday"}
NoTimeStr == <<>>
NoTime == -1
TimeFromIso(t) == t[1] * 60 + t[2]
Strftime(m) == <<m \div 60, m % 60>>

\* the provider the availability requests of a run are made for
RuleOwners == {1}
StartTimeStrs == {<<9, 0>>, <<13, 0>>}
EndTimeStrs == {<<12, 0>>, <<17, 0>>}
BreakLists == {<<>>, <<[start |-> <<10, 0>>, end |-> <<10, 15>>,
                        title |-> "Break"]>>}
Priorities == {0, 1}

\* bodies of POST /availability (AvailabilityCreate), all recurring
AvailabilityBodies ==
    [provider_id : RuleOwners, availability_type : {"recurring"},
     day_of_week : Weekdays, start_time : StartTimeStrs,
     end_time : EndTimeStrs, breaks : BreakLists, priority : Priorities,
     buffer_minutes : {0}, max_bookings : {1}, is_active : {TRUE}]

\* AvailabilityBase.end_after_start, run on request bodies and on responses
EndAfterStart(b) ==
    (b.end_time # NoTimeStr /\ b.start_time # NoTimeStr)
        => TimeFromIso(b.end_time) > TimeFromIso(b.start_time)

ParseTime(t) == IF t = NoTimeStr THEN NoTime ELSE TimeFromIso(t)
FormatTime(m) == IF m = NoTime THEN NoTimeStr ELSE Strftime(m)

\* the Availability row built from a validated body
NewAvailability(b) ==
    [provider_id |-> b.provider_id, availability_type |-> b.availability_type,
     day_of_week |-> b.day_of_week, start_time |-> ParseTime(b.start_time),
     end_time |-> ParseTime(b.end_time), breaks |-> b.breaks,
     priority |-> b.priority, buffer_minutes |-> b.buffer_minutes,
     max_bookings |-> b.max_bookings, is_active |-> b.is_active]

\* AvailabilityResponse(...) as the endpoints build it from a row
AvailabilityResponse(id, row) ==
    [id |-> id, provider_id |-> row.provider_id,
     availability_type |-> row.availability_type,
     day_of_week |-> row.day_of_week, start_time |-> FormatTime(row.start_time),
     end_time |-> FormatTime(row.end_time), breaks |-> row.breaks,
     priority |-> row.priority, buffer_minutes |-> row.buffer_minutes,
     max_bookings |-> row.max_bookings, is_active |-> row.is_active]

\* POST /availability: 422 from the schema, or INSERT and commit
create_availability(b) ==
    /\ Called
    /\ IF EndAfterStart(b)
       THEN /\ availability' = InsertRow(availability, nextAvailabilityId,
                                         NewAvailability(b))
            /\ nextAvailabilityId' = nextAvailabilityId + 1
            /\ lastOp' = OpRec("create_availability", <<b>>,
                               nextAvailabilityId, FALSE, 0)
       ELSE /\ UNCHANGED <<availability, nextAvailabilityId>>
            /\ lastOp' = OpRec("create_availability", <<b>>, 0, TRUE, 0)
    /\ UNCHANGED <<dbVars, raceVars, entryVars, availabilityExceptions,
                   inviteVars, rateLimit>>

\* the value update_availability assigns to a field of the row
UpdatedValue(field, value) ==
    IF field \in {"start_time", "end_time"} THEN ParseTime(value) ELSE value

\* PUT /availability/{id}: 404, or setattr, commit, and only then the
\* response, whose validation error becomes a 500 after the commit
update_availability(id, field, value) ==
    /\ Called
    /\ IF id \in DOMAIN availability
       THEN \E row \in {[availability[id] EXCEPT
                            ![field] = UpdatedValue(field, value)]} :
            /\ availability' = [availability EXCEPT ![id] = row]
            /\ lastOp' = OpRec("update_availability", <<id, field, value>>, id,
                               ~EndAfterStart(AvailabilityResponse(id, row)), 0)
       ELSE /\ UNCHANGED availability
            /\ lastOp' = OpRec("update_availability", <<id, field, value>>,
                               0, TRUE, 0)
    /\ UNCHANGED <<dbVars, raceVars, entryVars, nextAvailabilityId,
                   availabilityExceptions, inviteVars, rateLimit>>

\* DELETE /availability/{id}
delete_availability(id) ==
    /\ Called
    /\ IF id \in DOMAIN availability
       THEN /\ availability' = [i \in DOMAIN availability \ {id} |-> availability[i]]
            /\ lastOp' = OpRec("delete_availability", <<id>>, id, FALSE, 0)
       ELSE /\ UNCHANGED availability
            /\ lastOp' = OpRec("delete_availability", <<id>>, 0, TRUE, 0)
    /\ UNCHANGED <<dbVars, raceVars, entryVars, nextAvailabilityId,
                   availabilityExceptions, inviteVars, rateLimit>>

\* rule lists of POST /availability/bulk; the last holds a rule the schema
\* rejects
BulkRuleLists ==
    {<<>>,
     <<[provider_id |-> 1, availability_type |-> "recurring",
        day_of_week |-> "monday", start_time |-> <<9, 0>>,
        end_time |-> <<12, 0>>, breaks |-> <<>>, priority |-> 0,
        buffer_minutes |-> 0, max_bookings |-> 1, is_active |-> TRUE],
       [provider_id |-> 1, availability_type |-> "recurring",
        day_of_week |-> "monday", start_time |-> <<13, 0>>,
        end_time |-> <<17, 0>>, breaks |-> <<>>, priority |-> 1,
        buffer_minutes |-> 0, max_bookings |-> 1, is_active |-> TRUE]>>,
     <<[provider_id |-> 1, availability_type |-> "recurring",
        day_of_week |-> "tuesday", start_time |-> <<13, 0>>,
        end_time |-> <<12, 0>>, breaks |-> <<>>, priority |-> 0,
        buffer_minutes |-> 0, max_bookings |-> 1, is_active |-> TRUE]>>}

\* the table after the rules of a bulk request were added one by one
RECURSIVE BulkInsert(_, _, _, _)
BulkInsert(tbl, id, p, rules) ==
    IF rules = <<>> THEN tbl
    ELSE BulkInsert(InsertRow(tbl, id,
                              [NewAvailability(Head(rules)) EXCEPT !.provider_id = p]),
                    id + 1, p, Tail(rules))

\* the rows left by the DELETE of a provider's recurring rules
WithoutRecurring(tbl, p) ==
    [i \in {j \in DOMAIN tbl : ~(tbl[j].provider_id = p
                                 /\ tbl[j].availability_type = "recurring")}
        |-> tbl[i]]

\* POST /availability/bulk: 422 from the schema, or the optional DELETE,
\* the INSERTs and one commit
create_bulk_availability(p, rules, replace_existing) ==
    /\ Called
    /\ IF \A i \in DOMAIN rules : EndAfterStart(rules[i])
       THEN /\ availability' =
                   BulkInsert(IF replace_existing
                              THEN WithoutRecurring(availability, p)
                              ELSE availability,
                              nextAvailabilityId, p, rules)
            /\ nextAvailabilityId' = nextAvailabilityId + Len(rules)
            /\ lastOp' = OpRec("create_bulk_availability", <<>>,
                               Len(rules), FALSE, 0)
       ELSE /\ UNCHANGED <<availability, nextAvailabilityId>>
            /\ lastOp' = OpRec("create_bulk_availability", <<>>, 0, TRUE, 0)
    /\ UNCHANGED <<dbVars, raceVars, entryVars, availabilityExceptions,
                   inviteVars, rateLimit>>

\* bodies of POST /availability/exceptions
NoHours == <<>>
CustomHours == {NoHours, [start |-> <<10, 0>>, end |-> <<14, 0>>]}
ExceptionBodies ==
    [provider_id : RuleOwners, start_date : Dates, end_date : Dates,
     is_available : BOOLEAN, custom_hours : CustomHours, is_active : {TRUE}]

\* AvailabilityExceptionBase.end_after_start
EndDateAfterStart(b) == b.end_date >= b.start_date

\* POST /availability/exceptions: 422 from the schema, or INSERT and commit;
\* no endpoint deletes an exception, so the ids are 1, 2, ...
create_availability_exception(b) ==
    /\ Called
    /\ IF EndDateAfterStart(b)
       THEN /\ availabilityExceptions' =
                   InsertRow(availabilityExceptions,
                             Cardinality(DOMAIN availabilityExceptions) + 1, b)
            /\ lastOp' = OpRec("create_availability_exception", <<>>,
                               Cardinality(DOMAIN availabilityExceptions) + 1,
                               FALSE, 0)
       ELSE /\ UNCHANGED availabilityExceptions
            /\ lastOp' = OpRec("create_availability_exception", <<>>, 0, TRUE, 0)
    /\ UNCHANGED <<dbVars, raceVars, entryVars, availability,
                   nextAvailabilityId, inviteVars, rateLimit>>

\* rows the two queries of get_provider_weekly_schedule select
ActiveRecurring(p) ==
    {i \in DOMAIN availability : /\ availability[i].provider_id = p
                                 /\ availability[i].availability_type = "recurring"
                                 /\ availability[i].is_active}
ActiveExceptions(p) ==
    {i \in DOMAIN availabilityExceptions :
        /\ availabilityExceptions[i].provider_id = p
        /\ availabilityExceptions[i].is_active}

\* weekly_schedule[day]: the responses of the day's rules, in query order
DaySchedule(order, day) ==
    [k \in DOMAIN SelectSeq(order, LAMBDA i : availability[i].day_of_week = day)
        |-> AvailabilityResponse(
                SelectSeq(order, LAMBDA i : availability[i].day_of_week = day)[k],
                availability[SelectSeq(order,
                                LAMBDA i : availability[i].day_of_week = day)[k]])]

\* GET /availability/provider/{id}/weekly: every active recurring rule under
\* its weekday and the active exceptions beside them; .all() has no ORDER BY;
\* a response the schema rejects turns the request into a 500
get_provider_weekly_schedule(p) ==
    /\ Called
    /\ \E order \in Perms(ActiveRecurring(p)) :
       \E excs \in Perms(ActiveExceptions(p)) :
          IF \A i \in ActiveRecurring(p) :
                EndAfterStart(AvailabilityResponse(i, availability[i]))
          THEN lastOp' = OpRec("get_provider_weekly_schedule", <<p>>,
                   [schedule |-> [day \in Weekdays |-> DaySchedule(order, day)],
                    exceptions |-> [k \in DOMAIN excs |->
                                       availabilityExceptions[excs[k]]]],
                   FALSE, 0)
          ELSE lastOp' = OpRec("get_provider_weekly_schedule", <<p>>, 0, TRUE, 0)
    /\ UNCHANGED <<dbVars, raceVars, entryVars, otherVars>>

\* time of day of each appointment row, in minutes since midnight
ApptTimeOfDay == <<600, 600, 600>>

\* the mock day of get_available_time_slots
StartHour == 9
EndHour == 17
SlotDuration == 30
SlotTimes ==
    [k \in 1..(((EndHour - StartHour) * 60) \div SlotDuration)
        |-> StartHour * 60 + (k - 1) * SlotDuration]

\* is_available of the slot starting at minute t
SlotAvailable(p, d, t) ==
    /\ ~\E a \in DOMAIN appointments : /\ appointments[a].provider_id = p
                                       /\ appointments[a].scheduled_at = d
                                       /\ ApptTimeOfDay[a] = t
    /\ t \div 60 # 12

\* GET /services/timeslots/{provider_id}?date=: the slots of the mock day;
\* it reads no availability rule and no exception
get_available_time_slots(p, d) ==
    /\ Called
    /\ lastOp' = OpRec("get_available_time_slots", <<p, d>>,
                       [k \in DOMAIN SlotTimes |->
                           [time |-> Strftime(SlotTimes[k]),
                            is_available |-> SlotAvailable(p, d, SlotTimes[k]),
                            duration |-> SlotDuration]],
                       FALSE, 0)
    /\ UNCHANGED <<dbVars, raceVars, entryVars, otherVars>>

\* ids the PUT and DELETE requests of a run name
RuleIds == {1, 2}

NextAvailability ==
    \/ \E b \in AvailabilityBodies : create_availability(b)
    \/ \E id \in RuleIds :
          \/ \E t \in StartTimeStrs \cup {NoTimeStr} :
                update_availability(id, "start_time", t)
          \/ \E t \in EndTimeStrs \cup {NoTimeStr} :
                update_availability(id, "end_time", t)
          \/ \E n \in Priorities : update_availability(id, "priority", n)
          \/ \E v \in BOOLEAN : update_availability(id, "is_active", v)
          \/ \E bs \in BreakLists : update_availability(id, "breaks", bs)
    \/ \E id \in RuleIds : delete_availability(id)
    \/ \E p \in RuleOwners : \E rules \in BulkRuleLists : \E r \in BOOLEAN :
          create_bulk_availability(p, rules, r)
    \/ \E b \in ExceptionBodies : create_availability_exception(b)
    \/ \E p \in RuleOwners : get_provider_weekly_schedule(p)
    \/ \E p \in RuleOwners : \E d \in Dates : get_available_time_slots(p, d)

SpecAvailability == Init /\ [][NextAvailability]_vars

NoFault == <<0, NoService>>

\* ------------------------------------------------------------ properties
IsCall(name) == lastOp'.op = name /\ calls' # calls

\* C3: once an appointment's queue_id is set, a later
\* assign_appointment_to_queue on it is a no-op that returns the linked
\* queue: it inserts no queue and leaves queue_id as it was.
C3_FirstAssignmentWins ==
    [][\A a \in Appointments :
          (/\ IsCall("assign_appointment_to_queue")
           /\ lastOp'.args = <<a>>
           /\ ~lastOp'.raised
           /\ appointments[a].queue_id # NoQueue)
          => /\ appointments'[a].queue_id = appointments[a].queue_id
             /\ lastOp'.ret = appointments[a].queue_id
             /\ queues' = queues]_vars

\* C6: after create_daily_queues_for_provider(p, d) has run, running it
\* again changes neither the queues table nor any appointment, and no run
\* of it changes a queue_id that was already set.
C6_RerunChangesNothing ==
    (lastOp.op = "create_daily_queues_for_provider" /\ ~lastOp.raised) =>
        \A order \in ServiceOrders(appointments, lastOp.args[1], lastOp.args[2]),
           picks \in Picks(queues, lastOp.args[2]) :
            LET r == CreateForProvider(Store, lastOp.args[1], lastOp.args[2],
                                       order, picks, NoFault)
            IN  /\ ~r.raised
                /\ r.queues = queues
                /\ r.appts = appointments

C6_KeepsAssigned ==
    IsCall("create_daily_queues_for_provider") =>
        \A a \in Appointments :
            appointments[a].queue_id # NoQueue =>
                appointments'[a].queue_id = appointments[a].queue_id

C6_Idempotent == [](C6_RerunChangesNothing) /\ [][C6_KeepsAssigned]_vars

C6_Witness ==
    /\ lastOp.op = "create_daily_queues_for_provider"
    /\ ~lastOp.raised
    /\ \E a \in Eligible(appointments, lastOp.args[1], lastOp.args[2]) :
          /\ appointments[a].queue_id \in DOMAIN queues
          /\ queues[appointments[a].queue_id].service_name
                # appointments[a].service_name
    /\ \E a \in Eligible(appointments, lastOp.args[1], lastOp.args[2]) :
          /\ appointments[a].queue_id \in DOMAIN queues
          /\ appointments[a].queue_id = lastOp.ret[Len(lastOp.ret)]

\* C7: after create_daily_queues_for_all_providers(d), every provider
\* other than the one whose processing failed has all its eligible
\* appointments with a service name assigned to a queue.
C7_FailureIsolated ==
    lastOp.op = "create_daily_queues_for_all_providers" =>
        \A p \in Providers \ {lastOp.failed} :
            \A a \in Eligible(appointments, p, lastOp.args[1]) :
                appointments[a].service_name # NoService =>
                    appointments[a].queue_id # NoQueue

\* C8: close_past_queues(T) closes exactly the active queues dated before
\* T, returns how many they were, and leaves every queue dated T or later
\* as it was.
C8_ClosePast ==
    [][IsCall("close_past_queues") =>
          LET T == lastOp'.args[1] IN
          /\ DOMAIN queues' = DOMAIN queues
          /\ \A i \in DOMAIN queues :
                /\ (queues[i].status = "active" /\ queues[i].queue_date < T)
                      => queues'[i] = [queues[i] EXCEPT !.status = "closed"]
                /\ queues[i].queue_date >= T => queues'[i] = queues[i]
          /\ lastOp'.ret = Cardinality({i \in DOMAIN queues :
                              /\ queues[i].status = "active"
                              /\ queues[i].queue_date < T})]_vars

C8_Witness ==
    /\ lastOp.op = "close_past_queues"
    /\ lastOp.ret >= 1
    /\ \E i \in DOMAIN queues :
          queues[i].queue_date < lastOp.args[1] /\ queues[i].status = "closed"
    /\ \E i \in DOMAIN queues :
          queues[i].queue_date >= lastOp.args[1] /\ queues[i].status = "active"

\* C9: right after close_past_queues(T), a second call with the same T
\* finds no queue to close (returns 0) and leaves the table unchanged.
C9_SecondCloseIsNoOp ==
    lastOp.op = "close_past_queues" =>
        /\ Cardinality(PastQueues(queues, lastOp.args[1])) = 0
        /\ ClosePast(queues, lastOp.args[1]) = queues

C9_Witness ==
    /\ lastOp.op = "close_past_queues"
    /\ lastOp.ret >= 1
    /\ \E i \in DOMAIN queues : queues[i].status = "closed"

\* C10: no call of the queue manager takes a queue out of status closed,
\* and get_or_create_daily_queue returning an existing queue changes no row.
C10_NeverReopens ==
    [][(lastOp'.op \in EngineOps /\ calls' # calls) =>
          /\ \A i \in DOMAIN queues :
                queues[i].status = "closed" =>
                    i \in DOMAIN queues' /\ queues'[i].status = "closed"
          /\ (lastOp'.op = "get_or_create_daily_queue"
                /\ lastOp'.ret \in DOMAIN queues) => queues' = queues]_vars

C10_Witness ==
    /\ lastOp.op = "get_or_create_daily_queue"
    /\ lastOp.ret \in DOMAIN queues
    /\ queues[lastOp.ret].status = "closed"

\* C1: no two rows of the queues table have the same
\* (provider_id, service_name, queue_date), whatever the interleaving of
\* the callers of get_or_create_daily_queue.
C1_OneRowPerKey ==
    \A i \in DOMAIN queues : \A j \in DOMAIN queues :
        (/\ queues[i].provider_id = queues[j].provider_id
         /\ queues[i].service_name = queues[j].service_name
         /\ queues[i].queue_date = queues[j].queue_date) => i = j

\* C2: two callers of get_or_create_daily_queue that have both returned
\* for the same key hold the same queue id.
C2_LoserReturnsWinner ==
    \A c1 \in Callers : \A c2 \in Callers :
        (/\ pc[c1] = "done" /\ pc[c2] = "done"
         /\ frame[c1].op = "get_or_create_daily_queue"
         /\ frame[c2].op = "get_or_create_daily_queue"
         /\ frame[c1].key = frame[c2].key)
        => frame[c1].ret = frame[c2].ret

\* C4: when no join is in flight, the positions of the entries of a queue
\* that was only ever joined with matching path and body ids are exactly
\* 1..N for its N entries.
C4_PositionsDense ==
    (\A c \in Callers : pc[c] # "insert") =>
        \A q \in EntryQueues :
            (\A k \in 1..Len(joinLog) :
                (joinLog[k].path = q \/ joinLog[k].body = q)
                    => joinLog[k].path = joinLog[k].body)
            => /\ {entries[e].position : e \in EntriesOf(entries, q)}
                    = 1..Cardinality(EntriesOf(entries, q))
               /\ \A e1 \in EntriesOf(entries, q) : \A e2 \in EntriesOf(entries, q) :
                    entries[e1].position = entries[e2].position => e1 = e2

\* C5: the position a join on a queue returns is greater than every
\* position an earlier join on that queue returned.
C5_PositionsNeverReused ==
    \A i \in 1..Len(joinLog) : \A j \in 1..Len(joinLog) :
        (/\ i < j
         /\ joinLog[i].path = joinLog[i].body
         /\ joinLog[j].path = joinLog[j].body
         /\ joinLog[i].path = joinLog[j].path)
        => joinLog[i].position < joinLog[j].position

\* C11: an update of an entry's status is accepted only for the pairs
\* waiting->called, called->completed, waiting->cancelled, waiting->no_show
\* and called->no_show; any other request on an existing entry is rejected
\* and leaves the entry as it was.
C11_OnlyLegalTransitions ==
    [][\A e \in EntryIds :
          (/\ IsCall("update_queue_entry")
           /\ lastOp'.args[2] = e
           /\ e \in DOMAIN entries
           /\ entries[e].queue_id = lastOp'.args[1])
          => /\ ~lastOp'.raised =>
                    <<entries[e].status, entries'[e].status>> \in
                        {<<"waiting", "called">>, <<"called", "completed">>,
                         <<"waiting", "cancelled">>, <<"waiting", "no_show">>,
                         <<"called", "no_show">>}
             /\ lastOp'.raised => entries' = entries]_vars

\* C12: an entry in status called has a called_at, an entry in status
\* completed has a completed_at, and a timestamp that is set never changes.
C12_TimestampsSet ==
    /\ [](\A e \in DOMAIN entries :
            /\ entries[e].status = "called" => entries[e].called_at # NoDate
            /\ entries[e].status = "completed"
                  => entries[e].completed_at # NoDate)
    /\ [][\A e \in DOMAIN entries \cap DOMAIN entries' :
            /\ entries[e].called_at # NoDate
                  => entries'[e].called_at = entries[e].called_at
            /\ entries[e].completed_at # NoDate
                  => entries'[e].completed_at = entries[e].completed_at]_vars

\* C13: a get_or_create_daily_queue call for a key that already has a queue
\* returns that same queue and changes no row, whatever edits the queue's
\* name, status, max_size or estimated_wait_time received since it was
\* created; and a call repeated right after a successful one returns the
\* id the first returned.
C13_RepeatReturnsSame ==
    (lastOp.op = "get_or_create_daily_queue" /\ ~lastOp.raised) =>
        LET row == queues[lastOp.ret] IN
        \A pick \in FirstOf(Matching(queues, row.provider_id,
                                     row.service_name, row.queue_date)) :
            LET g == GetOrCreate([queues |-> queues, nextQueueId |-> nextQueueId],
                                 row.provider_id, row.service_name,
                                 row.queue_date, pick, FALSE)
            IN  /\ ~g.raised
                /\ g.ret = lastOp.ret
                /\ g.queues = queues

C13_ExistingUntouched ==
    (IsCall("get_or_create_daily_queue") /\ ~lastOp'.raised) =>
        LET row == queues'[lastOp'.ret]
            before == Matching(queues, row.provider_id, row.service_name,
                               row.queue_date)
        IN  before # {} => /\ before = {lastOp'.ret}
                           /\ queues' = queues

C14_MissingFieldsNoOp ==
    [][\A a \in Appointments :
          (/\ IsCall("assign_appointment_to_queue")
           /\ lastOp'.args = <<a>>
           /\ \/ appointments[a].scheduled_at = NoDate
              \/ appointments[a].service_name = NoService)
          => /\ lastOp'.ret = NoQueue
             /\ ~lastOp'.raised
             /\ queues' = queues
             /\ nextQueueId' = nextQueueId
             /\ appointments' = appointments]_vars

C14_Witness ==
    /\ lastOp.op = "assign_appointment_to_queue"
    /\ lastOp.ret = NoQueue
    /\ ~lastOp.raised
    /\ appointments[lastOp.args[1]].service_name = NoService
    /\ appointments[lastOp.args[1]].queue_id = NoQueue

\* C15: a successful assign_appointment_to_queue on an appointment with no
\* queue_id, a scheduled_at and a service_name returns a queue whose key is
\* the appointment's (provider_id, service_name, date of scheduled_at) and
\* writes its id to queue_id; the queue is the existing one for that key,
\* left untouched, or a newly inserted one when the key had none.
C15_AssignLinks ==
    [][\A a \in Appointments :
          (/\ IsCall("assign_appointment_to_queue")
           /\ lastOp'.args = <<a>>
           /\ ~lastOp'.raised
           /\ appointments[a].queue_id = NoQueue
           /\ appointments[a].scheduled_at # NoDate
           /\ appointments[a].service_name # NoService)
          => LET apt == appointments[a]
                 q == lastOp'.ret
                 before == Matching(queues, apt.provider_id, apt.service_name,
                                    apt.scheduled_at)
             IN  /\ q \in DOMAIN queues'
                 /\ queues'[q].provider_id = apt.provider_id
                 /\ queues'[q].service_name = apt.service_name
                 /\ queues'[q].queue_date = apt.scheduled_at
                 /\ appointments' = [appointments EXCEPT ![a].queue_id = q]
                 /\ before # {} => (q \in before /\ queues' = queues)
                 /\ before = {} =>
                       /\ q \notin DOMAIN queues
                       /\ DOMAIN queues' = DOMAIN queues \cup {q}
                       /\ \A i \in DOMAIN queues : queues'[i] = queues[i]]_vars

C15_Witness ==
    /\ lastOp.op = "assign_appointment_to_queue"
    /\ ~lastOp.raised
    /\ calls = 1
    /\ lastOp.ret \in DOMAIN queues
    /\ appointments[lastOp.args[1]].queue_id = lastOp.ret
    /\ queues[lastOp.ret].service_name
          = appointments[lastOp.args[1]].service_name

C17_JoinAtEnd ==
    [][IsCall("add_queue_entry") =>
          LET q == lastOp'.args[1]
              before == {e \in DOMAIN entries : entries[e].queue_id = q}
              new == nextEntryId
          IN  /\ new \in DOMAIN entries' \ DOMAIN entries
              /\ entries'[new].position = lastOp'.ret
              /\ before = {} => lastOp'.ret = 1
              /\ before # {} =>
                    /\ \A e \in before : entries[e].position < lastOp'.ret
                    /\ \E e \in before : entries[e].position + 1 = lastOp'.ret]_vars

C17_Witness ==
    /\ lastOp.op = "add_queue_entry"
    /\ lastOp.args[1] = lastOp.args[2]
    /\ lastOp.ret = 3
    /\ Cardinality(EntriesOf(entries, lastOp.args[1])) = 3

\* C20: a join on a queue id that names no queue, and a status update on an
\* entry id that names no entry of the queue in the path, are rejected with
\* an error and leave the queue_entries table as it was.
C20_UnknownIdsRejected ==
    [][/\ (IsCall("add_queue_entry") /\ lastOp'.args[1] \notin DOMAIN queues)
            => (lastOp'.raised /\ entries' = entries)
       /\ (/\ IsCall("update_queue_entry")
           /\ ~(/\ lastOp'.args[2] \in DOMAIN entries
                /\ entries[lastOp'.args[2]].queue_id = lastOp'.args[1]))
            => (lastOp'.raised /\ entries' = entries)]_vars

C19_BatchOutcome(before, after, qs, p, d) ==
    /\ \A a \in Eligible(before, p, d) :
          /\ before[a].service_name = NoService => after[a] = before[a]
          /\ before[a].service_name # NoService => after[a].queue_id \in DOMAIN qs
    /\ \A i \in DOMAIN qs : qs[i].service_name # NoService

C19_NeverRaises ==
    \A p \in Providers, d \in Dates :
        (\E a \in Eligible(appointments, p, d) :
            appointments[a].service_name = NoService) =>
        \A order \in ServiceOrders(appointments, p, d), picks \in Picks(queues, d) :
            LET r == CreateForProvider(Store, p, d, order, picks, NoFault)
            IN  /\ ~r.raised
                /\ C19_BatchOutcome(appointments, r.appts, r.queues, p, d)

C19_Skips ==
    (IsCall("create_daily_queues_for_provider") /\ ~lastOp'.raised) =>
        C19_BatchOutcome(appointments, appointments', queues',
                         lastOp'.args[1], lastOp'.args[2])

C19_BadAppointmentSkipped == [](C19_NeverRaises) /\ [][C19_Skips]_vars

C19_Witness ==
    /\ lastOp.op = "create_daily_queues_for_provider"
    /\ ~lastOp.raised
    /\ calls = 2
    /\ Len(lastOp.ret) = 1
    /\ \E a \in Eligible(appointments, lastOp.args[1], lastOp.args[2]) :
          /\ appointments[a].service_name = NoService
          /\ appointments[a].queue_id = NoQueue
    /\ \E a \in Eligible(appointments, lastOp.args[1], lastOp.args[2]) :
          /\ appointments[a].service_name # NoService
          /\ appointments[a].queue_id = lastOp.ret[1]

\* ------------------------------------------------------------ C21 .. C24
\* the weekday a date falls on
C21_WeekdayOf(d) == IF d = 1 THEN "monday" ELSE "tuesday"

\* the intervals a slot list offers: its maximal runs of available slots,
\* in minutes since midnight
C21_Offered(slots) ==
    {<<TimeFromIso(slots[i].time), TimeFromIso(slots[j].time) + slots[j].duration>> :
        <<i, j>> \in {ij \in (DOMAIN slots) \X (DOMAIN slots) :
            /\ ij[1] <= ij[2]
            /\ \A k \in ij[1]..ij[2] : slots[k].is_available
            /\ (ij[1] = 1 \/ ~slots[ij[1] - 1].is_available)
            /\ (ij[2] = Len(slots) \/ ~slots[ij[2] + 1].is_available)}}

\* an active exception that closes date d for provider p
C21_Closed(p, d) ==
    \E i \in DOMAIN availabilityExceptions :
        /\ availabilityExceptions[i].provider_id = p
        /\ availabilityExceptions[i].is_active
        /\ ~availabilityExceptions[i].is_available
        /\ availabilityExceptions[i].custom_hours = NoHours
        /\ availabilityExceptions[i].start_date <= d
        /\ d <= availabilityExceptions[i].end_date

\* C21: when an active exception with is_available = false and no
\* custom_hours covers the date, the availability answered for the provider
\* and the date is empty, whatever recurring rules exist
C21_ClosedDayIsEmpty ==
    [][(IsCall("get_available_time_slots")
        /\ C21_Closed(lastOp'.args[1], lastOp'.args[2]))
       => C21_Offered(lastOp'.ret) = {}]_vars

\* an active exception of any kind that covers date d for provider p
C22_Excepted(p, d) ==
    \E i \in ActiveExceptions(p) :
        /\ availabilityExceptions[i].start_date <= d
        /\ d <= availabilityExceptions[i].end_date

\* the active recurring rules of provider p for the weekday of date d
C22_RulesOn(p, d) ==
    {i \in ActiveRecurring(p) :
        availability[i].day_of_week = C21_WeekdayOf(d)}

\* what the claim says a lone rule yields
C22_Expected(rule) ==
    IF rule.breaks = <<>>
    THEN {<<rule.start_time, rule.end_time>>}
    ELSE {<<rule.start_time, TimeFromIso(rule.breaks[1].start)>>,
          <<TimeFromIso(rule.breaks[1].end), rule.end_time>>}

\* the lone rule has a window and at most one break, strictly inside it
C22_Applies(rule) ==
    /\ rule.start_time # NoTime /\ rule.end_time # NoTime
    /\ rule.start_time < rule.end_time
    /\ Len(rule.breaks) <= 1
    /\ \A k \in DOMAIN rule.breaks :
          /\ rule.start_time < TimeFromIso(rule.breaks[k].start)
          /\ TimeFromIso(rule.breaks[k].end) < rule.end_time

\* C22: for a date whose weekday has a single active recurring rule [s, e]
\* and no exception, the availability answered is exactly (s, b1), (b2, e)
\* when the rule has one break [b1, b2] strictly inside it and exactly (s, e)
\* when it has none, and what is offered carries the rule's buffer_minutes
\* and max_bookings
C22_BreaksSubtracted ==
    [][(/\ IsCall("get_available_time_slots")
        /\ ~C22_Excepted(lastOp'.args[1], lastOp'.args[2])
        /\ Cardinality(C22_RulesOn(lastOp'.args[1], lastOp'.args[2])) = 1
        /\ \A i \in C22_RulesOn(lastOp'.args[1], lastOp'.args[2]) :
              C22_Applies(availability[i]))
       => \A i \in C22_RulesOn(lastOp'.args[1], lastOp'.args[2]) :
             /\ C21_Offered(lastOp'.ret) = C22_Expected(availability[i])
             /\ \A k \in DOMAIN lastOp'.ret :
                   lastOp'.ret[k].is_available =>
                      /\ "buffer_minutes" \in DOMAIN lastOp'.ret[k]
                      /\ lastOp'.ret[k].buffer_minutes = availability[i].buffer_minutes
                      /\ "max_bookings" \in DOMAIN lastOp'.ret[k]
                      /\ lastOp'.ret[k].max_bookings = availability[i].max_bookings]_vars

\* the windows of the rules of highest priority among the rules R
C23_TopWindows(R) ==
    {<<availability[i].start_time, availability[i].end_time>> :
        i \in {j \in R : \A k \in R :
                  availability[k].priority <= availability[j].priority}}

\* the windows W with overlapping and touching ones merged
C23_Merged(W) ==
    {<<a, b>> \in {w[1] : w \in W} \X {w[2] : w \in W} :
        /\ a < b
        /\ ~\E w \in W : w[1] < a /\ a <= w[2]
        /\ ~\E w \in W : w[1] <= b /\ b < w[2]
        /\ \A v \in W : (a <= v[2] /\ v[2] < b)
                           => \E w \in W : w[1] <= v[2] /\ v[2] < w[2]}

\* C23: for a date with no exception whose weekday's active recurring rules
\* have windows and no breaks, the availability answered is the merged
\* windows of the highest priority alone, and is empty when the weekday has
\* no active recurring rule
C23_PriorityReplaces ==
    [][(/\ IsCall("get_available_time_slots")
        /\ ~C22_Excepted(lastOp'.args[1], lastOp'.args[2])
        /\ \A i \in C22_RulesOn(lastOp'.args[1], lastOp'.args[2]) :
              /\ availability[i].breaks = <<>>
              /\ availability[i].start_time # NoTime
              /\ availability[i].end_time # NoTime
              /\ availability[i].start_time < availability[i].end_time)
       => C21_Offered(lastOp'.ret) =
             C23_Merged(C23_TopWindows(
                 C22_RulesOn(lastOp'.args[1], lastOp'.args[2])))]_vars

\* C24: every stored availability rule that has both start_time and
\* end_time has end_time > start_time, and a create, bulk or update request
\* that ends in an error leaves the table as it was
C24_EndAfterStartStored ==
    /\ [](\A i \in DOMAIN availability :
            (availability[i].start_time # NoTime /\ availability[i].end_time # NoTime)
               => availability[i].end_time > availability[i].start_time)
    /\ [][((IsCall("create_availability") \/ IsCall("create_bulk_availability")
            \/ IsCall("update_availability")) /\ lastOp'.raised)
          => availability' = availability]_vars

\* ------------------------------------------------------------ C25 .. C28
\* C25: every appointment with a queue_id is linked to a queue whose
\* provider, service and day are the appointment's own, also after
\* update_appointment changed its service_name or scheduled_at
C25_LinkMatchesAppointment ==
    \A a \in DOMAIN appointments :
        appointments[a].queue_id # NoQueue =>
            /\ appointments[a].queue_id \in DOMAIN queues
            /\ queues[appointments[a].queue_id].provider_id
                  = appointments[a].provider_id
            /\ queues[appointments[a].queue_id].service_name
                  = appointments[a].service_name
            /\ queues[appointments[a].queue_id].queue_date
                  = appointments[a].scheduled_at

\* C26: every appointment's queue_id and every queue entry's queue_id names
\* a stored queue, also after delete_queue removed a queue
C26_QueueLinksResolve ==
    /\ \A a \in DOMAIN appointments :
          appointments[a].queue_id # NoQueue
             => appointments[a].queue_id \in DOMAIN queues
    /\ \A e \in DOMAIN entries : entries[e].queue_id \in DOMAIN queues

\* C28: a create_appointment request that ends in an error leaves no
\* appointment row behind, and one that succeeds has stored the appointment
\* and linked it to the queue of its provider, service and day
C28_CreateIsAtomic ==
    [][IsCall("create_appointment") =>
          IF lastOp'.raised
          THEN appointments' = appointments
          ELSE /\ lastOp'.ret \in DOMAIN appointments' \ DOMAIN appointments
               /\ appointments'[lastOp'.ret].queue_id \in DOMAIN queues'
               /\ queues'[appointments'[lastOp'.ret].queue_id].provider_id
                     = lastOp'.args[1]
               /\ queues'[appointments'[lastOp'.ret].queue_id].service_name
                     = lastOp'.args[2]
               /\ queues'[appointments'[lastOp'.ret].queue_id].queue_date
                     = lastOp'.args[3]]_vars

\* C27: the entry add_queue_entry creates belongs to the queue of the
\* request path, whatever queue_id the body carries, and no two entries of
\* one queue share a position
C27_EntryInPathQueue ==
    /\ [](\A e1 \in DOMAIN entries : \A e2 \in DOMAIN entries :
            (e1 # e2 /\ entries[e1].queue_id = entries[e2].queue_id)
               => entries[e1].position # entries[e2].position)
    /\ [][IsCall("add_queue_entry") =>
            \A e \in DOMAIN entries' \ DOMAIN entries :
               entries'[e].queue_id = lastOp'.args[1]]_vars

\* ------------------------------------------------------------ C29, C30
\* validate_invitation_token(t) returns None
C29_Dead(t) ==
    \A pick \in FirstOf(TokenMatches(clients, t)) :
        ValidateToken(clients, t, pick, now) = 0

\* tokens a registration has succeeded with
C29_UsedTokens ==
    {inviteLog[k].token : k \in {j \in DOMAIN inviteLog :
                                    inviteLog[j].op = "registered"}}

\* C29: a token a registration succeeded with never validates again, and a
\* second registration with it fails and leaves every client row, the
\* password included, as it was; a token of a client who was issued a newer
\* one never validates; and an invitation for a client with has_account
\* true fails and issues no token
C29_TokensSingleUse ==
    /\ [](/\ \A t \in C29_UsedTokens : C29_Dead(t)
          /\ \A j \in DOMAIN inviteLog : \A k \in DOMAIN inviteLog :
                (/\ j < k
                 /\ inviteLog[j].op = "issued" /\ inviteLog[k].op = "issued"
                 /\ inviteLog[j].client = inviteLog[k].client)
                   => C29_Dead(inviteLog[j].token))
    /\ [][/\ (IsCall("complete_client_registration")
              /\ lastOp'.args[1] \in C29_UsedTokens)
                => (lastOp'.raised /\ clients' = clients)
          /\ ((IsCall("send_client_invitation") \/ IsCall("resend_invitation"))
              /\ lastOp'.args[1] \in DOMAIN clients
              /\ clients[lastOp'.args[1]].has_account)
                => (/\ lastOp'.raised /\ lastOp'.ret = NoToken
                    /\ clients' = clients /\ inviteLog' = inviteLog)]_vars

\* a registration succeeded with a token and a second one with the same
\* token has just been refused
C29_Witness ==
    /\ lastOp.op = "complete_client_registration"
    /\ lastOp.raised
    /\ lastOp.args[1] \in C29_UsedTokens

\* C30: every rate_limit key in the store carries an expiry, under every
\* interleaving of is_allowed calls and key expiry, so no key outlives its
\* window and a client that was refused is allowed again afterwards
C30_EveryKeyExpires ==
    \A k \in DOMAIN rateLimit : rateLimit[k].expires

====
